---- MODULE Spec2Model ----
(***************************************************************************)
(* A model of ndinterp: the bracket search of a Grid (grid.rs,             *)
(* Grid::closest_below), the numerical derivatives of a GridSlice          *)
(* (grid.rs, derivative_at / central_derivative_at) and the scattered      *)
(* point container (scatter/commons.rs, Commons).                          *)
(*                                                                         *)
(* f64 coordinates and values are modelled by integers (finite, exactly    *)
(* ordered); quotients of f64 are modelled by exact fractions.  Indices    *)
(* are 0-based as in the source; At(s, i) reads element i of a sequence.   *)
(***************************************************************************)
EXTENDS Integers, Sequences, FiniteSets

VARIABLES D, xgrid, query, result,
          sx, sy, index, dres,
          inputs, points, values, finder, built

vars == <<D, xgrid, query, result, sx, sy, index, dres,
          inputs, points, values, finder, built>>

gridVars == <<D, xgrid, query, result>>
sliceVars == <<sx, sy, index, dres>>
commonsVars == <<inputs, points, values, finder, built>>

----------------------------------------------------------------------------
(* Bounds of the model *)

\* grid coordinates are drawn from 0 .. MaxCoord
MaxCoord == 3

\* slice values (y) are drawn from 0 .. MaxY
MaxY == 2

\* a Commons is built from at most MaxInputs inputs
MaxInputs == 3

\* points of the scattered set are drawn from 0 .. MaxPoint
MaxPoint == 1

\* values of the scattered set are drawn from 0 .. MaxValue
MaxValue == 1

\* finders are identified by 1 .. MaxFinder
MaxFinder == 2

----------------------------------------------------------------------------
(* Helpers shared by the operations *)

At(s, i) == s[i + 1]

Last(s) == s[Len(s)]

Min2(a, b) == IF a < b THEN a ELSE b

Min3(a, b, c) == Min2(a, Min2(b, c))

Coords == 0 .. MaxCoord

StrictlyAscending(s) == \A i \in 1 .. Len(s) - 1 : s[i] < s[i + 1]

\* the strictly ascending axes over Coords (every length from 0 to MaxCoord + 1)
AscAxes == {s \in UNION {[1 .. n -> Coords] : n \in 0 .. MaxCoord + 1} : StrictlyAscending(s)}

\* axes of two points that are not strictly ascending
UnsortedAxes == {<<a, b>> : a \in Coords, b \in Coords} \ AscAxes

Axes == AscAxes \cup UnsortedAxes

\* the width of usize, narrowed to keep 2^w inside the checker's integers
UsizeBits == 16

UsizeModulus == 2 ^ UsizeBits

----------------------------------------------------------------------------
(* Grid::closest_below *)

NoResult == [kind |-> "none", idx |-> <<>>, err |-> "", val |-> 0]

OkResult(ret) == [kind |-> "Ok", idx |-> ret, err |-> "", val |-> 0]

ErrResult(e, q) == [kind |-> "Err", idx |-> <<>>, err |-> e, val |-> q]

PanicResult == [kind |-> "Panic", idx |-> <<>>, err |-> "", val |-> 0]

\* the closure of line 135: |x| x < &query
pred_le(x, q) == x <= q

pred(x, q) == x < q

\* slice::partition_point, the binary search of the standard library
RECURSIVE binary_search(_, _, _, _)
binary_search(s, q, left, right) ==
    IF left < right
    THEN LET mid == left + (right - left) \div 2
         IN  IF pred(At(s, mid), q)
             THEN binary_search(s, q, mid + 1, right)
             ELSE binary_search(s, q, left, mid)
    ELSE left

IsPartitioned(s, q) ==
    \A i \in 1 .. Len(s) : \A j \in 1 .. Len(s) :
        (i < j /\ pred(s[j], q)) => pred(s[i], q)

\* partition_point: the partition index of a partitioned slice; on a slice
\* that is not partitioned the result is unspecified (any index 0 .. len)
partition_point(s, q) ==
    IF IsPartitioned(s, q) THEN {binary_search(s, q, 0, Len(s))} ELSE 0 .. Len(s)

\* lines 129-133: the range test of one axis
extrapolation_check_clamped(q, igrid) ==
    IF q > Last(igrid) THEN ErrResult("ExtrapolationAbove", Last(igrid))
    ELSE IF q < igrid[1] THEN ErrResult("ExtrapolationBelow", igrid[1])
    ELSE NoResult

extrapolation_check(q, igrid) ==
    IF q > Last(igrid) THEN ErrResult("ExtrapolationAbove", q)
    ELSE IF q < igrid[1] THEN ErrResult("ExtrapolationBelow", q)
    ELSE NoResult

\* the loop of lines 128-137 from the k-th zipped triple on; n is the length
\* of the shortest of ret, input_query and xgrid (izip! stops there).
\* checks: the build traps integer overflow (debug) or wraps (release).
RECURSIVE closest_below_last(_, _, _, _, _, _)
closest_below_last(ret, k, n, q, xg, checks) ==
    IF k = n THEN {OkResult(ret)}
    ELSE LET igrid == At(xg, k)
         IN  IF Len(igrid) = 0 THEN {PanicResult}
             ELSE LET c == extrapolation_check(At(q, k), igrid)
                      rest == closest_below_last(ret, k + 1, n, q, xg, checks)
                  IN  IF c.kind = "Err"
                      THEN IF \E r \in rest : r.kind # "Ok"
                           THEN {r \in rest : r.kind # "Ok"}
                           ELSE {c}
                      ELSE UNION {
                             IF u_idx = 0 /\ checks THEN {PanicResult}
                             ELSE closest_below_last(
                                    [ret EXCEPT ![k + 1] = (u_idx - 1) % UsizeModulus],
                                    k + 1, n, q, xg, checks)
                             : u_idx \in partition_point(igrid, At(q, k))}

RECURSIVE closest_below_from(_, _, _, _, _, _)
closest_below_from(ret, k, n, q, xg, checks) ==
    IF k = n THEN {OkResult(ret)}
    ELSE LET igrid == At(xg, k)
         IN  IF Len(igrid) = 0 THEN {PanicResult}
             ELSE LET c == extrapolation_check(At(q, k), igrid)
                  IN  IF c.kind = "Err" THEN {c}
                      ELSE UNION {
                             IF u_idx = 0 /\ checks THEN {PanicResult}
                             ELSE closest_below_from(
                                    [ret EXCEPT ![k + 1] = (u_idx - 1) % UsizeModulus],
                                    k + 1, n, q, xg, checks)
                             : u_idx \in partition_point(igrid, At(q, k))}

\* lines 125-139: the outcomes of one call
closest_below(d, xg, q, checks) ==
    closest_below_from([a \in 1 .. d |-> 0], 0, Min3(d, Len(q), Len(xg)), q, xg, checks)

\* the fixture of the tests (lines 147-155); the axis is written in tenths
\* where the test queries 0.5 and 3.2 are used
gen_grid_x == <<0, 1, 2, 3, 4>>

gen_grid_y == <<4, 3, 2, 1, 1>>

gen_grid_x_tenths == <<0, 10, 20, 30, 40>>

\* DimensionHelper<D> implements ToDimension for D = 1 and D = 2 (lines 26-32)
Dims == {1, 2}

Grids == UNION {[1 .. n -> Axes] : n \in 0 .. 2}

QueryCoords == -1 .. MaxCoord + 1

Queries == UNION {[1 .. n -> QueryCoords] : n \in 0 .. 2}

----------------------------------------------------------------------------
(* GridSlice: derivative_at and central_derivative_at *)

Abs(n) == IF n < 0 THEN -n ELSE n

RECURSIVE Gcd(_, _)
Gcd(a, b) == IF b = 0 THEN a ELSE Gcd(b, a % b)

NoDeriv == [kind |-> "none", op |-> "", num |-> 0, den |-> 1, evaluated |-> <<>>]

\* the f64 n / d with d # 0, in lowest terms with a positive denominator
Value(n, d) ==
    LET g == Gcd(Abs(n), Abs(d))
        sgn == IF d < 0 THEN -1 ELSE 1
    IN  [kind |-> "Value", num |-> (sgn * n) \div g, den |-> (sgn * d) \div g]

\* a quotient by zero: an infinity or a NaN
NonFinite == [kind |-> "NonFinite", num |-> 0, den |-> 1]

Panic == [kind |-> "Panic", num |-> 0, den |-> 1]

\* index - 1 on usize: traps (-1 here) when the build checks overflow, wraps otherwise
usize_pred(i, checks) ==
    IF i = 0 /\ checks THEN -1 ELSE (i - 1) % UsizeModulus

\* lines 80-84; every indexing of x and y is bounds-checked
derivative_at_forward(x, y, i, checks) ==
    IF ~(i + 1 < Len(x)) \/ ~(i + 1 < Len(y)) THEN Panic
    ELSE LET dx == At(x, i + 1) - At(x, i)
             dy == At(y, i + 1) - At(y, i)
         IN  IF dx = 0 THEN NonFinite ELSE Value(dy, dx)

derivative_at(x, y, i, checks) ==
    LET prev == usize_pred(i, checks)
    IN  IF ~(i < Len(x)) \/ prev < 0 \/ ~(prev < Len(x)) THEN Panic
        ELSE IF ~(i < Len(y)) \/ ~(prev < Len(y)) THEN Panic
        ELSE LET dx == At(x, i) - At(x, prev)
                 dy == At(y, i) - At(y, prev)
             IN  IF dx = 0 THEN NonFinite ELSE Value(dy, dx)

\* lines 91-95: 0.5 * (dy_f + dy_b)
central_derivative_at(x, y, i, checks) ==
    LET dy_f == derivative_at(x, y, i + 1, checks)
        dy_b == derivative_at(x, y, i, checks)
    IN  IF dy_f.kind = "Panic" THEN Panic
        ELSE IF dy_b.kind = "Panic" THEN Panic
        ELSE IF dy_f.kind = "NonFinite" \/ dy_b.kind = "NonFinite" THEN NonFinite
        ELSE Value(dy_f.num * dy_b.den + dy_b.num * dy_f.den, 2 * dy_f.den * dy_b.den)

\* the indices central_derivative_at passes to derivative_at, in order
central_evaluated(x, y, i, checks) ==
    IF derivative_at(x, y, i + 1, checks).kind = "Panic" THEN <<i + 1>> ELSE <<i + 1, i>>

Ys == UNION {[1 .. n -> 0 .. MaxY] : n \in 0 .. MaxCoord + 1}

Indices == 0 .. MaxCoord + 1

----------------------------------------------------------------------------
(* Commons *)

Points == 0 .. MaxPoint

Values == 0 .. MaxValue

None == 0

Finders == 1 .. MaxFinder

Input == [point : Points, value : Values]

Inputs == UNION {[1 .. n -> Input] : n \in 0 .. MaxInputs}

\* line 24: inputs.iter().map(|i| i.value).collect()
new_values_reversed(inp) == [i \in 1 .. Len(inp) |-> inp[Len(inp) + 1 - i].value]

new_values(inp) == [i \in 1 .. Len(inp) |-> inp[i].value]

\* line 25: inputs.into_iter().map(|i| Rc::new(i.point)).collect()
new_points(inp) == [i \in 1 .. Len(inp) |-> inp[i].point]

----------------------------------------------------------------------------
(* The state machine *)

Init ==
    /\ D = 0
    /\ xgrid = <<>>
    /\ query = <<>>
    /\ result = NoResult
    /\ sx = <<>>
    /\ sy = <<>>
    /\ index = 0
    /\ dres = [NoDeriv EXCEPT !.kind = "unbuilt"]
    /\ inputs = <<>>
    /\ points = <<>>
    /\ values = <<>>
    /\ finder = None
    /\ built = FALSE

\* a Grid is built by a struct literal (lines 41-50, 151-154): no check is made
Construct ==
    /\ D = 0
    /\ \E d \in Dims : \E xg \in Grids :
         /\ D' = d
         /\ xgrid' = xg
    /\ UNCHANGED <<query, result, sliceVars, commonsVars>>

\* closest_below borrows the grid immutably: a call depends on no earlier
\* call, so one call per behaviour reaches every outcome
ClosestBelow ==
    /\ D \in Dims
    /\ result.kind = "none"
    /\ \E q \in Queries : \E checks \in BOOLEAN :
         /\ query' = q
         /\ result' \in closest_below(D, xgrid, q, checks)
    /\ UNCHANGED <<D, xgrid, sliceVars, commonsVars>>

\* tests::check_index_search (lines 168-173): 0.5 and 3.2 on the fixture
check_index_search ==
    /\ D = 0
    /\ D' = 1
    /\ xgrid' = <<gen_grid_x_tenths>>
    /\ \E q \in {<<5>>, <<32>>} : \E checks \in BOOLEAN :
         /\ query' = q
         /\ result' \in closest_below(1, <<gen_grid_x_tenths>>, q, checks)
    /\ UNCHANGED <<sliceVars, commonsVars>>

\* a GridSlice is built by a struct literal or from a Grid<1> (lines 100-105,
\* 160-163): x is an axis, y a view of the values, of any length
MakeSlice ==
    /\ dres.kind = "unbuilt"
    /\ \E x \in Axes : \E y \in Ys :
         /\ sx' = x
         /\ sy' = y
    /\ dres' = NoDeriv
    /\ UNCHANGED <<index, gridVars, commonsVars>>

DerivativeAt ==
    /\ dres.kind = "none"
    /\ \E i \in Indices : \E checks \in BOOLEAN :
         /\ index' = i
         /\ dres' = [kind |-> derivative_at(sx, sy, i, checks).kind,
                     op |-> "derivative_at",
                     num |-> derivative_at(sx, sy, i, checks).num,
                     den |-> derivative_at(sx, sy, i, checks).den,
                     evaluated |-> <<i>>]
    /\ UNCHANGED <<sx, sy, gridVars, commonsVars>>

CentralDerivativeAt ==
    /\ dres.kind = "none"
    /\ \E i \in Indices : \E checks \in BOOLEAN :
         /\ index' = i
         /\ dres' = [kind |-> central_derivative_at(sx, sy, i, checks).kind,
                     op |-> "central_derivative_at",
                     num |-> central_derivative_at(sx, sy, i, checks).num,
                     den |-> central_derivative_at(sx, sy, i, checks).den,
                     evaluated |-> central_evaluated(sx, sy, i, checks)]
    /\ UNCHANGED <<sx, sy, gridVars, commonsVars>>

\* tests::check_derivative (lines 157-166): indices 1 and 3 on the fixture
check_derivative ==
    /\ dres.kind = "unbuilt"
    /\ sx' = gen_grid_x
    /\ sy' = gen_grid_y
    /\ \E i \in {1, 3} : \E checks \in BOOLEAN :
         /\ index' = i
         /\ dres' = [kind |-> central_derivative_at(gen_grid_x, gen_grid_y, i, checks).kind,
                     op |-> "central_derivative_at",
                     num |-> central_derivative_at(gen_grid_x, gen_grid_y, i, checks).num,
                     den |-> central_derivative_at(gen_grid_x, gen_grid_y, i, checks).den,
                     evaluated |-> central_evaluated(gen_grid_x, gen_grid_y, i, checks)]
    /\ UNCHANGED <<gridVars, commonsVars>>

\* Commons::new (lines 23-32)
New ==
    /\ ~built
    /\ \E inp \in Inputs :
         /\ inputs' = inp
         /\ values' = new_values(inp)
         /\ points' = new_points(inp)
    /\ finder' = None
    /\ built' = TRUE
    /\ UNCHANGED <<gridVars, sliceVars>>

\* Commons::set_finder (lines 34-36)
SetFinder ==
    /\ built
    /\ \E f \in Finders : finder' = f
    /\ UNCHANGED <<inputs, points, values, built, gridVars, sliceVars>>

NextGrid == Construct \/ ClosestBelow \/ check_index_search

NextSlice == MakeSlice \/ DerivativeAt \/ CentralDerivativeAt \/ check_derivative

NextCommons == New \/ SetFinder

SpecGrid == Init /\ [][NextGrid]_vars

SpecSlice == Init /\ [][NextSlice]_vars

SpecCommons == Init /\ [][NextCommons]_vars

----------------------------------------------------------------------------
(* Properties *)

Searched == 1 .. Min3(D, Len(query), Len(xgrid))

\* the grid has D axes, each strictly ascending, and the query D coordinates
GridValid == Len(xgrid) = D /\ \A a \in 1 .. D : StrictlyAscending(xgrid[a])

FullQuery == Len(query) = D

\* a valid grid each of whose axes has at least two nodes
GridProper == GridValid /\ \A a \in 1 .. D : Len(xgrid[a]) >= 2

\* no searched coordinate is the first node of its axis
OffFirstNode == \A a \in Searched : Len(xgrid[a]) >= 1 => query[a] # xgrid[a][1]

OutOfRange(a) ==
    /\ Len(xgrid[a]) >= 1
    /\ query[a] < xgrid[a][1] \/ query[a] > Last(xgrid[a])

InRange(a) ==
    /\ Len(xgrid[a]) >= 1
    /\ xgrid[a][1] < query[a]
    /\ query[a] <= Last(xgrid[a])

OutAxes == {a \in Searched : OutOfRange(a)}

FirstOut == CHOOSE a \in OutAxes : \A b \in OutAxes : a <= b

\* idx brackets the query on axis a: axis[idx] < query <= axis[idx + 1]
Bracket(a, i) ==
    /\ 0 <= i
    /\ i <= Len(xgrid[a]) - 2
    /\ At(xgrid[a], i) < query[a]
    /\ query[a] <= At(xgrid[a], i + 1)

\* C1: on a grid with strictly ascending axes and a query with
\* axis[0] < query[a] <= axis[last] on every axis, closest_below returns Ok(idx)
\* with idx[a] the greatest index such that axis_a[idx[a]] < query[a], so that
\* axis_a[idx[a]] < query[a] <= axis_a[idx[a] + 1] and 0 <= idx[a] <= len - 2.
C1_ClosestBelowBracket ==
    (result.kind # "none" /\ GridValid /\ FullQuery /\ \A a \in 1 .. D : InRange(a))
        => /\ result.kind = "Ok"
           /\ Len(result.idx) = D
           /\ \A a \in 1 .. D :
                /\ Bracket(a, result.idx[a])
                /\ \A j \in 0 .. Len(xgrid[a]) - 1 :
                     At(xgrid[a], j) < query[a] => j <= result.idx[a]

\* a two-axis search whose first coordinate is the last node of its axis and
\* whose bracket is not the first one
C1_Witness ==
    /\ result.kind = "Ok"
    /\ D = 2
    /\ GridValid /\ FullQuery
    /\ \A a \in 1 .. D : InRange(a)
    /\ query[1] = Last(xgrid[1])
    /\ result.idx[1] = Len(xgrid[1]) - 2
    /\ result.idx[1] >= 1
    /\ query[2] < Last(xgrid[2])

C3_FirstNodeIsExtrapolationBelow ==
    (result.kind # "none" /\ D = 1 /\ GridProper /\ FullQuery
       /\ query[1] = xgrid[1][1])
        => result = ErrResult("ExtrapolationBelow", query[1])

\* C4: when several axes of a D-dimensional query are out of range, the call
\* returns the error of the first of them in axis order with that axis's
\* coordinate and no index; and an Ok result always carries all D indices.
C4_FirstFailingAxis ==
    result.kind # "none"
        => /\ (Len(xgrid) = D /\ FullQuery /\ Cardinality(OutAxes) >= 2)
                => /\ result.kind = "Err"
                   /\ result.idx = <<>>
                   /\ result.val = query[FirstOut]
                   /\ result.err = (IF query[FirstOut] > Last(xgrid[FirstOut])
                                    THEN "ExtrapolationAbove" ELSE "ExtrapolationBelow")
           /\ result.kind = "Ok" => Len(result.idx) = D
           /\ result.kind \in {"Err", "Panic"} => result.idx = <<>>

\* both axes are out of range on different sides with different coordinates
C4_Witness ==
    /\ result.kind = "Err"
    /\ D = 2
    /\ GridValid /\ FullQuery
    /\ OutAxes = {1, 2}
    /\ query[1] > Last(xgrid[1])
    /\ query[2] < xgrid[2][1]
    /\ query[1] # query[2]
    /\ result = ErrResult("ExtrapolationAbove", query[1])

SliceValid == StrictlyAscending(sx) /\ Len(sy) = Len(sx)

\* C5: on a slice with strictly ascending x and 1 <= i <= n - 2,
\* central_derivative_at(i) is
\* 1/2 * ((y[i+1]-y[i])/(x[i+1]-x[i]) + (y[i]-y[i-1])/(x[i]-x[i-1]));
\* with an even spacing dx it is (y[i+1]-y[i-1]) / (2 dx); the fixture gives
\* -1 at index 1 and -1/2 at index 3.
C5_CentralDerivative ==
    (dres.op = "central_derivative_at" /\ SliceValid
       /\ 1 <= index /\ index <= Len(sx) - 2)
        => LET a == At(sy, index + 1) - At(sy, index)
               b == At(sx, index + 1) - At(sx, index)
               c == At(sy, index) - At(sy, index - 1)
               e == At(sx, index) - At(sx, index - 1)
           IN  /\ dres.kind = "Value"
               /\ dres.den > 0
               /\ dres.num * (2 * b * e) = dres.den * (a * e + c * b)
               /\ b = e => dres.num * (2 * b)
                             = dres.den * (At(sy, index + 1) - At(sy, index - 1))
               /\ (sx = gen_grid_x /\ sy = gen_grid_y /\ index = 1)
                    => (dres.num = -1 /\ dres.den = 1)
               /\ (sx = gen_grid_x /\ sy = gen_grid_y /\ index = 3)
                    => (dres.num = -1 /\ dres.den = 2)

\* an interior index of an unevenly spaced slice with a non-zero derivative
C5_Witness ==
    /\ dres.op = "central_derivative_at"
    /\ dres.kind = "Value"
    /\ SliceValid
    /\ 1 <= index /\ index <= Len(sx) - 2
    /\ At(sx, index + 1) - At(sx, index) # At(sx, index) - At(sx, index - 1)
    /\ At(sy, index + 1) # At(sy, index)
    /\ At(sy, index) # At(sy, index - 1)
    /\ dres.num # 0

Aligned ==
    /\ Len(points) = Len(inputs)
    /\ Len(values) = Len(inputs)
    /\ \A i \in 1 .. Len(inputs) :
         points[i] = inputs[i].point /\ values[i] = inputs[i].value

\* C6: Commons::new over n inputs yields points and values of length n, the
\* i-th of each being the point and value of the i-th input, and no finder;
\* set_finder changes neither the lengths nor any pairing.
C6_PointsValuesAligned ==
    [][/\ built' => Aligned'
       /\ (~built /\ built') => finder' = None
       /\ built => (points' = points /\ values' = values /\ inputs' = inputs)]_vars

\* a finder is attached to a Commons of inputs with distinct points and values
C6_Witness ==
    /\ built
    /\ finder # None
    /\ Len(inputs) >= 2
    /\ inputs[1].value # inputs[2].value
    /\ inputs[1].point # inputs[2].point
    /\ Len(points) = Len(inputs)

\* C7 as stated: once set_finder has installed a Finder, no later operation
\* (a further set_finder included) replaces or removes it.
C7_FinderAttachedOnce ==
    [][(built /\ finder # None) => finder' = finder]_vars

\* C8 as stated: closest_below and the derivatives never run on a grid whose
\* axes are not strictly ascending or whose shape differs from the axes'
\* (stated for grids of D axes of at least two nodes and queries of D coordinates).
C8_OnlyValidGridsAreQueried ==
    /\ (result.kind # "none" /\ Len(xgrid) = D /\ FullQuery
          /\ \A a \in 1 .. D : Len(xgrid[a]) >= 2)
         => \A a \in 1 .. D : StrictlyAscending(xgrid[a])
    /\ dres.kind \notin {"unbuilt", "none"} => SliceValid

\* C9 as stated: at the boundary indices 0 and n - 1 of a slice of n >= 2
\* points central_derivative_at yields a value, and derivative_at is only
\* evaluated at indices 1 .. n - 1.
C9_BoundaryPolicy ==
    (dres.op = "central_derivative_at" /\ SliceValid /\ Len(sx) >= 2
       /\ index \in {0, Len(sx) - 1})
        => /\ dres.kind = "Value"
           /\ \A k \in 1 .. Len(dres.evaluated) :
                1 <= dres.evaluated[k] /\ dres.evaluated[k] <= Len(sx) - 1

\* C10 as stated: every Ok result brackets the query on all D axes; a query
\* with fewer than D coordinates never yields Ok (stated for valid grids and
\* queries off the first node of every searched axis).
C10_OkIsFullBracket ==
    (result.kind = "Ok" /\ GridProper /\ OffFirstNode)
        => /\ Len(query) >= D
           /\ \A a \in 1 .. D : Bracket(a, result.idx[a])

====
